---- MODULE Spec2Model ----
(***************************************************************************)
(* Model of oniazusa: the Kizuato-style image filter                       *)
(* (src/src/oniazusa/filter.py) and its command-line driver                *)
(* (src/src/oniazusa/cli.py).                                              *)
(*                                                                         *)
(* Three specifications share one set of variables:                        *)
(*   Spec      one call of apply_kizuato_style(input, output, tint,        *)
(*             levels, scale) walking through its stages;                  *)
(*   SpecCli   main() in directory mode, calling the pipeline with its     *)
(*             default arguments for each file of the sorted listing;      *)
(*   SpecPixel the arithmetic the pipeline applies to one pixel (the       *)
(*             stages are element-wise numpy expressions).                 *)
(*                                                                         *)
(* Numbers: numpy computes in float32; the model computes the same         *)
(* expressions in exact rational arithmetic, every value carried as an     *)
(* integer numerator over a named denominator.  Scales are taken with a    *)
(* denominator for which orig_w * scale is exact in binary floating point. *)
(***************************************************************************)
EXTENDS Integers, Sequences, FiniteSets, TLC

(* ------------------------------ bounds --------------------------------- *)
\* largest image width and height of a direct call
MaxDim == 4
\* scales of a direct call are n / ScaleDen
ScaleDen == 8
\* the smallest scale numerator is -MaxNegScale
MaxNegScale == 3
\* level counts of a direct call are 1 .. MaxLevels
MaxLevels == 4
\* most files in the input directory
MaxFiles == 3
\* pixel coordinates in the downscaled image are 0 .. MaxCoord
MaxCoord == 8

(* --------------------------- program constants ------------------------- *)
\* filter.py:9-18, before the division by 64
BAYER_8X8 ==
  << << 0, 48, 12, 60,  3, 51, 15, 63>>,
     <<32, 16, 44, 28, 35, 19, 47, 31>>,
     << 8, 56,  4, 52, 11, 59,  7, 55>>,
     <<40, 24, 36, 20, 43, 27, 39, 23>>,
     << 2, 50, 14, 62,  1, 49, 13, 61>>,
     <<34, 18, 46, 30, 33, 17, 45, 29>>,
     <<10, 58,  6, 54,  9, 57,  5, 53>>,
     <<42, 26, 38, 22, 41, 25, 37, 21>> >>

\* filter.py:18, the divisor of the matrix
BayerDen == 64

\* filter.py:9-18, the side of the matrix
BayerSize == 8

\* filter.py:22-27, BGR triples
PRESETS ==
  [ green  |-> <<210, 240, 200>>,
    yellow |-> <<200, 235, 245>>,
    blue   |-> <<240, 215, 195>>,
    purple |-> <<100, 60, 80>> ]

\* filter.py:33-35, the default arguments; scale 0.12 = 3/25
DefaultTint == "green"

DefaultLevels == 16

DefaultScale == <<3, 25>>

\* the largest 8-bit sample (np.uint8; "/ 255.0" at filter.py:79)
GrayMax == 255

(* ------------------------------ state ---------------------------------- *)
VARIABLES
  files,       \* file name -> [readable, w, h]: what cv2.imread finds there
  listing,     \* main: files of the directory, in iterdir() order
  queue,       \* main: sorted(files)
  idx,         \* main: position of the for loop in queue
  mpc,         \* main: "api" (no main), "start", "loop", "done", "exit1", "crashed"
  printed,     \* main: names printed as "<in> -> <out>"
  cur,         \* pipeline: input file of the running call
  tint,        \* pipeline argument
  levels,      \* pipeline argument
  scale,       \* pipeline argument, <<numerator, denominator>>
  pc,          \* pipeline: next stage, or "idle", "returned", "raised"
  orig,        \* pipeline: <<orig_w, orig_h>>
  small,       \* pipeline: <<small_w, small_h>>
  shape,       \* pipeline: <<width, height>> of the current buffer
  resizeCalls, \* pipeline: the dsize of every cv2.resize call made
  done,        \* pipeline: stages completed by the running call
  err,         \* pipeline: exception raised, or "none"
  outputs,     \* file name -> <<w, h>> of the image written for it, or <<>>
  ppc,         \* pixel: next step
  edge,        \* pixel: 1 when Canny marked the pixel, else 0
  img_f,       \* pixel: sample after the overlay, in halves (float32)
  img,         \* pixel: sample after img_f.astype(np.uint8)
  gray,        \* pixel: 8-bit luminance of the downscaled pixel
  py,          \* pixel: row in the downscaled image
  px,          \* pixel: column in the downscaled image
  dithered,    \* pixel: blended dither value, numerator over FinalDen(levels)
  result_f,    \* pixel: dithered * tint_bgr[c], numerators over FinalDen(levels)
  result,      \* pixel: BGR triple after clip and astype(np.uint8)
  final        \* pixel: BGR triple of the upscaled image

mainVars == <<files, listing, queue, idx, mpc, printed>>

pipeVars == <<cur, tint, levels, scale, pc, orig, small, shape, resizeCalls,
              done, err, outputs>>

pixelVars == <<ppc, edge, img_f, img, gray, py, px, dithered, result_f,
               result, final>>

vars == <<mainVars, pipeVars, pixelVars>>

(* ------------------------------ helpers -------------------------------- *)
\* Python int(x) of the rational a / b, b > 0: truncation toward zero
IntTrunc(a, b) == IF a >= 0 THEN a \div b ELSE -((-a) \div b)

\* tint names tried: the four presets and two names that are no preset
TintNames == {"green", "yellow", "blue", "purple", "xyz", ""}

\* a name that is no preset falling back to the last preset of the table
PresetsGetPurple(t) ==
  IF t \in DOMAIN PRESETS THEN PRESETS[t] ELSE PRESETS["purple"]

\* PRESETS.get(tint, PRESETS["green"])
PresetsGet(t) == IF t \in DOMAIN PRESETS THEN PRESETS[t] ELSE PRESETS["green"]

\* the output written right after the pre-processing, before the downscale
StageOrderWriteEarly ==
  <<"imread", "bilateral", "edges", "overlay", "blur", "imwrite", "downscale",
    "gray", "dither", "tint", "upscale">>

\* the statements of apply_kizuato_style in program order
StageOrder ==
  <<"imread", "bilateral", "edges", "overlay", "blur", "downscale", "gray",
    "dither", "tint", "upscale", "imwrite">>

StageIndex(s) == CHOOSE i \in 1..Len(StageOrder) : StageOrder[i] = s

\* the statement after stage s; falling off the end returns None
Advance(s) ==
  IF StageIndex(s) = Len(StageOrder) THEN "returned"
  ELSE StageOrder[StageIndex(s) + 1]

\* cv2.resize rejects an empty dsize (width <= 0 or height <= 0)
ResizeRejects(dsize) == dsize[1] <= 0 \/ dsize[2] <= 0

PixelIdle ==
  /\ ppc = "off" /\ edge = 0 /\ img_f = 0 /\ img = 0 /\ gray = 0
  /\ py = 0 /\ px = 0 /\ dithered = 0
  /\ result_f = <<0, 0, 0>> /\ result = <<0, 0, 0>> /\ final = <<0, 0, 0>>

(* --------------------- apply_kizuato_style, by stage ------------------- *)
\* a stage that completes: the next statement is reached
Completes(s) ==
  /\ pc' = Advance(s)
  /\ done' = Append(done, s)

\* a stage that raises: the exception leaves apply_kizuato_style
Raises(s, e) ==
  /\ pc' = "raised"
  /\ err' = e
  /\ done' = done

\* filter.py:46-51
Imread ==
  /\ pc = "imread"
  /\ IF ~files[cur].readable
       THEN /\ Raises("imread", "ValueError")
            /\ UNCHANGED <<orig, shape>>
       ELSE /\ Completes("imread")
            /\ orig' = <<files[cur].w, files[cur].h>>
            /\ shape' = <<files[cur].w, files[cur].h>>
            /\ err' = err
  /\ UNCHANGED <<mainVars, pixelVars, cur, tint, levels, scale, small,
                 resizeCalls, outputs>>

\* filter.py:55-56
Bilateral ==
  /\ pc = "bilateral"
  /\ Completes("bilateral")
  /\ UNCHANGED <<mainVars, pixelVars, cur, tint, levels, scale, orig, small,
                 shape, resizeCalls, err, outputs>>

\* filter.py:59-61
Edges ==
  /\ pc = "edges"
  /\ Completes("edges")
  /\ UNCHANGED <<mainVars, pixelVars, cur, tint, levels, scale, orig, small,
                 shape, resizeCalls, err, outputs>>

\* filter.py:64-68
Overlay ==
  /\ pc = "overlay"
  /\ Completes("overlay")
  /\ UNCHANGED <<mainVars, pixelVars, cur, tint, levels, scale, orig, small,
                 shape, resizeCalls, err, outputs>>

\* filter.py:71
Blur ==
  /\ pc = "blur"
  /\ Completes("blur")
  /\ UNCHANGED <<mainVars, pixelVars, cur, tint, levels, scale, orig, small,
                 shape, resizeCalls, err, outputs>>

\* filter.py:74-76
Downscale ==
  /\ pc = "downscale"
  /\ LET small_w == IntTrunc(orig[1] * scale[1], scale[2])
         small_h == IntTrunc(orig[2] * scale[1], scale[2])
     IN /\ small' = <<small_w, small_h>>
        /\ resizeCalls' = Append(resizeCalls, <<small_w, small_h>>)
        /\ IF ResizeRejects(<<small_w, small_h>>)
             THEN /\ Raises("downscale", "cv2.error")
                  /\ shape' = shape
             ELSE /\ Completes("downscale")
                  /\ shape' = <<small_w, small_h>>
                  /\ err' = err
  /\ UNCHANGED <<mainVars, pixelVars, cur, tint, levels, scale, orig, outputs>>

\* filter.py:79
Gray ==
  /\ pc = "gray"
  /\ Completes("gray")
  /\ UNCHANGED <<mainVars, pixelVars, cur, tint, levels, scale, orig, small,
                 shape, resizeCalls, err, outputs>>

\* filter.py:82-92; no statement of the stage raises, whatever levels >= 1 is
Dither ==
  /\ pc = "dither"
  /\ Completes("dither")
  /\ UNCHANGED <<mainVars, pixelVars, cur, tint, levels, scale, orig, small,
                 shape, resizeCalls, err, outputs>>

\* filter.py:95-102
Tint ==
  /\ pc = "tint"
  /\ Completes("tint")
  /\ UNCHANGED <<mainVars, pixelVars, cur, tint, levels, scale, orig, small,
                 shape, resizeCalls, err, outputs>>

\* filter.py:105
Upscale ==
  /\ pc = "upscale"
  /\ resizeCalls' = Append(resizeCalls, orig)
  /\ IF ResizeRejects(orig)
       THEN /\ Raises("upscale", "cv2.error")
            /\ shape' = shape
       ELSE /\ Completes("upscale")
            /\ shape' = orig
            /\ err' = err
  /\ UNCHANGED <<mainVars, pixelVars, cur, tint, levels, scale, orig, small,
                 outputs>>

\* filter.py:107
Imwrite ==
  /\ pc = "imwrite"
  /\ outputs' = [outputs EXCEPT ![cur] = shape]
  /\ Completes("imwrite")
  /\ UNCHANGED <<mainVars, pixelVars, cur, tint, levels, scale, orig, small,
                 shape, resizeCalls, err>>

Pipeline ==
  \/ Imread \/ Bilateral \/ Edges \/ Overlay \/ Blur \/ Downscale
  \/ Gray \/ Dither \/ Tint \/ Upscale \/ Imwrite

(* ------------------------- Spec: one direct call ----------------------- *)
Images ==
  { [readable |-> r, w |-> w, h |-> h] :
      r \in BOOLEAN, w \in 1..MaxDim, h \in 1..MaxDim }

Init ==
  /\ \E f \in Images : files = [n \in {1} |-> f]
  /\ listing = <<>> /\ queue = <<>> /\ idx = 0 /\ mpc = "api" /\ printed = <<>>
  /\ cur = 1
  /\ tint \in TintNames
  /\ levels \in 1..MaxLevels
  /\ \E n \in (-MaxNegScale)..ScaleDen : scale = <<n, ScaleDen>>
  /\ pc = StageOrder[1]
  /\ orig = <<0, 0>> /\ small = <<0, 0>> /\ shape = <<0, 0>>
  /\ resizeCalls = <<>> /\ done = <<>> /\ err = "none"
  /\ outputs = [n \in {1} |-> <<>>]
  /\ PixelIdle

Next == Pipeline

Spec == Init /\ [][Next]_vars

(* ------------------------ SpecCli: main(), a directory ----------------- *)
\* sizes of the images in the directory: with scale 0.12 the first one
\* downscales to 0 x 0, the others to 1 x 1 and 3 x 2
CliSizes == {<<8, 8>>, <<9, 9>>, <<25, 17>>}

CliImages ==
  { [readable |-> r, w |-> d[1], h |-> d[2]] : r \in BOOLEAN, d \in CliSizes }

\* the orders in which iterdir() can list the files S
Orders(S) ==
  { s \in [1..Cardinality(S) -> S] :
      \A i, j \in 1..Cardinality(S) : i # j => s[i] # s[j] }

\* sorted(files): file names are compared as integers here
Sorted(seq) ==
  LET S == { seq[i] : i \in 1..Len(seq) }
  IN  CHOOSE s \in Orders(S) : \A i, j \in 1..Len(seq) : i < j => s[i] < s[j]

PipeIdle ==
  /\ cur = 0 /\ tint = DefaultTint /\ levels = DefaultLevels
  /\ scale = DefaultScale /\ pc = "idle"
  /\ orig = <<0, 0>> /\ small = <<0, 0>> /\ shape = <<0, 0>>
  /\ resizeCalls = <<>> /\ done = <<>> /\ err = "none"

InitCli ==
  /\ \E S \in SUBSET (1..MaxFiles) :
       /\ files \in [S -> CliImages]
       /\ listing \in Orders(S)
       /\ outputs = [n \in S |-> <<>>]
  /\ queue = <<>> /\ idx = 0 /\ mpc = "start" /\ printed = <<>>
  /\ PipeIdle
  /\ PixelIdle

\* cli.py:19-27: list the directory, give up when it holds no image, sort
MainList ==
  /\ mpc = "start"
  /\ IF listing = <<>>
       THEN /\ mpc' = "exit1"
            /\ UNCHANGED <<queue, idx>>
       ELSE /\ mpc' = "loop"
            /\ queue' = Sorted(listing)
            /\ idx' = 1
  /\ UNCHANGED <<files, listing, printed, pipeVars, pixelVars>>

\* cli.py:27-29: the next file of the loop, called with the default arguments
MainCall ==
  /\ mpc = "loop" /\ pc = "idle" /\ idx <= Len(queue)
  /\ cur' = queue[idx]
  /\ tint' = DefaultTint /\ levels' = DefaultLevels /\ scale' = DefaultScale
  /\ pc' = StageOrder[1]
  /\ orig' = <<0, 0>> /\ small' = <<0, 0>> /\ shape' = <<0, 0>>
  /\ resizeCalls' = <<>> /\ done' = <<>>
  /\ UNCHANGED <<mainVars, pixelVars, err, outputs>>

\* cli.py:30: the call returned
MainPrint ==
  /\ mpc = "loop" /\ pc = "returned"
  /\ printed' = Append(printed, cur)
  /\ idx' = idx + 1
  /\ pc' = "idle"
  /\ UNCHANGED <<files, listing, queue, mpc, pixelVars, cur, tint, levels,
                 scale, orig, small, shape, resizeCalls, done, err, outputs>>

\* cli.py:27-30: no handler around the call, the exception ends main()
MainCrash ==
  /\ mpc = "loop" /\ pc = "raised"
  /\ mpc' = "crashed"
  /\ UNCHANGED <<files, listing, queue, idx, printed, pipeVars, pixelVars>>

\* cli.py:27: the loop is exhausted
MainDone ==
  /\ mpc = "loop" /\ pc = "idle" /\ idx > Len(queue)
  /\ mpc' = "done"
  /\ UNCHANGED <<files, listing, queue, idx, printed, pipeVars, pixelVars>>

NextCli ==
  \/ MainList \/ MainCall \/ MainPrint \/ MainCrash \/ MainDone
  \/ Imread \/ Bilateral \/ Edges \/ Overlay \/ Blur \/ Downscale
  \/ Gray \/ Dither \/ Tint \/ Upscale \/ Imwrite

SpecCli == InitCli /\ [][NextCli]_vars

(* -------------------- SpecPixel: the arithmetic of one pixel ----------- *)
\* "* 1.2" at filter.py:87 is 6/5
StrengthSlopeNum == 6

StrengthSlopeDen == 5

\* "* 0.5" at filter.py:64 is 1/2: img_f is carried in halves
OpacityDen == 2

\* the number of values of np.uint8
Uint8Range == 256

\* denominator of dither_strength
StrengthDen == GrayMax * StrengthSlopeDen

\* denominator of the dithered value before quantisation
DitherDen(N) == BayerDen * N * StrengthDen

\* denominator of the blended dither value
FinalDen(N) == GrayMax * StrengthDen * N

\* np.clip without its lower bound
ClipUpperOnly(x, lo, hi) == IF x > hi THEN hi ELSE x

\* np.clip(x, lo, hi), filter.py:87, 89, 102
Clip(x, lo, hi) == IF x < lo THEN lo ELSE IF x > hi THEN hi ELSE x

\* x.astype(np.uint8) of the float a / b: the fraction is dropped, and a
\* value outside 0..255 wraps modulo 256
AsUint8(a, b) == IntTrunc(a, b) % Uint8Range

\* the overlay brightening instead of darkening: img_f * (1.0 + edge_mask)
OverlayBrightens(v, e) == v * (OpacityDen + e)

\* filter.py:64-67: img_f * (1.0 - edge_mask), edge_mask = 0.5 on an edge;
\* the result in halves
OverlayF(v, e) == v * (OpacityDen - e)

\* filter.py:83: the tiled matrix at row y, column x (times BayerDen)
Bayer(y, x) == BAYER_8X8[(y % BayerSize) + 1][(x % BayerSize) + 1]

\* filter.py:87: dither_strength of gray k / 255, over StrengthDen
DitherStrength(k) ==
  Clip(StrengthDen - StrengthSlopeNum * k, 0, StrengthDen)

\* filter.py:88-89: gray + (bayer - 0.5) / levels * dither_strength, clipped
\* to [0, 1]; over DitherDen(N)
DitherClipped(k, b, N) ==
  Clip(k * BayerDen * N * StrengthSlopeDen
         + (b - BayerDen \div 2) * DitherStrength(k),
       0, DitherDen(N))

\* the quantisation without its division by levels
QuantizedNoDivide(k, b, N) ==
  N * (DitherClipped(k, b, N) \div (BayerDen * StrengthDen))

\* filter.py:90: np.floor(dithered * levels) / levels; the result times N
Quantized(k, b, N) == DitherClipped(k, b, N) \div (BayerDen * StrengthDen)

\* filter.py:92: gray * (1 - dither_strength) + dithered * dither_strength;
\* over FinalDen(N)
Blend(k, b, N) ==
  k * (StrengthDen - DitherStrength(k)) * N
    + Quantized(k, b, N) * DitherStrength(k) * GrayMax

\* filter.py:98-100: dithered * tint_bgr[c], over FinalDen(N)
TintF(v, bgr) == [c \in 1..3 |-> v * bgr[c]]

\* filter.py:102: np.clip(result, 0, 255).astype(np.uint8)
ToSamples(rf, N) ==
  [c \in 1..3 |-> AsUint8(Clip(rf[c], 0, GrayMax * FinalDen(N)), FinalDen(N))]

NoPipe ==
  /\ files = <<>> /\ listing = <<>> /\ queue = <<>> /\ idx = 0
  /\ mpc = "api" /\ printed = <<>> /\ cur = 0 /\ scale = DefaultScale
  /\ pc = "idle" /\ orig = <<0, 0>> /\ small = <<0, 0>> /\ shape = <<0, 0>>
  /\ resizeCalls = <<>> /\ done = <<>> /\ err = "none" /\ outputs = <<>>

\* either a sample of the full-size image about to be overlaid, or a pixel
\* of the downscaled image about to be dithered; the configuration is valid
\* (levels >= 2)
InitPixel ==
  /\ NoPipe
  /\ tint \in TintNames
  /\ levels \in 2..MaxLevels
  /\ dithered = 0
  /\ result_f = <<0, 0, 0>> /\ result = <<0, 0, 0>> /\ final = <<0, 0, 0>>
  /\ \/ /\ ppc = "overlay"
        /\ img \in 0..GrayMax
        /\ edge \in {0, 1}
        /\ img_f = 0 /\ gray = 0 /\ py = 0 /\ px = 0
     \/ /\ ppc = "dither"
        /\ gray \in 0..GrayMax
        /\ py \in 0..MaxCoord
        /\ px \in 0..MaxCoord
        /\ img = 0 /\ edge = 0 /\ img_f = 0

\* filter.py:64-68, one sample
PixelOverlay ==
  /\ ppc = "overlay"
  /\ img_f' = OverlayF(img, edge)
  /\ img' = AsUint8(OverlayF(img, edge), OpacityDen)
  /\ ppc' = "overlaid"
  /\ UNCHANGED <<mainVars, pipeVars, edge, gray, py, px, dithered, result_f,
                 result, final>>

\* filter.py:82-92, one pixel
PixelDither ==
  /\ ppc = "dither"
  /\ dithered' = Blend(gray, Bayer(py, px), levels)
  /\ ppc' = "tint"
  /\ UNCHANGED <<mainVars, pipeVars, edge, img_f, img, gray, py, px, result_f,
                 result, final>>

\* filter.py:95-102, one pixel
PixelTint ==
  /\ ppc = "tint"
  /\ result_f' = TintF(dithered, PresetsGet(tint))
  /\ result' = ToSamples(TintF(dithered, PresetsGet(tint)), levels)
  /\ ppc' = "upscale"
  /\ UNCHANGED <<mainVars, pipeVars, edge, img_f, img, gray, py, px, dithered,
                 final>>

\* filter.py:105: INTER_NEAREST copies the pixel into its block
PixelUpscale ==
  /\ ppc = "upscale"
  /\ final' = result
  /\ ppc' = "done"
  /\ UNCHANGED <<mainVars, pipeVars, edge, img_f, img, gray, py, px, dithered,
                 result_f, result>>

NextPixel == PixelOverlay \/ PixelDither \/ PixelTint \/ PixelUpscale

SpecPixel == InitPixel /\ [][NextPixel]_vars

(* =========================== claims: Spec ============================== *)
\* the call of Spec has a readable input
Readable == files[cur].readable

\* the scale argument lies in (0, 1]
ScaleValid == scale[1] >= 1 /\ scale[1] <= scale[2]

\* the downscale target of the call, as line 74-75 computes it
TargetOf(f) ==
  <<IntTrunc(files[f].w * scale[1], scale[2]),
    IntTrunc(files[f].h * scale[1], scale[2])>>

\* C1: with levels below 2, a readable image, any tint and a valid scale,
\* the call ends in an error and no output image is written.
C1_LevelsBelowTwoRejected ==
  (levels < 2 /\ Readable /\ ScaleValid)
    => (outputs[cur] = <<>> /\ pc # "returned")

\* C2: when the computed downscale width or height is 0 (or below), the
\* pipeline's own validation raises a configuration error, and the call
\* never reaches cv2.resize, the dither or the write.
C2_ZeroTargetRejectedByValidation ==
  (Readable /\ ResizeRejects(TargetOf(cur)))
    => /\ resizeCalls = <<>>
       /\ \A i \in 1..Len(done) : done[i] \notin {"downscale", "dither", "imwrite"}
       /\ outputs[cur] = <<>>
       /\ pc = "raised" => err = "ConfigError"

\* the stages that come before the write in the program text
StagesBeforeWrite ==
  {"imread", "bilateral", "edges", "overlay", "blur", "downscale", "gray",
   "dither", "tint", "upscale"}

\* C5: a stage that fails aborts the call at that stage and nothing is
\* written for the image; the output is written only after every other
\* stage has completed without error.
C5_WriteOnlyAfterAllStages ==
  /\ outputs[cur] # <<>> =>
       /\ err = "none"
       /\ StagesBeforeWrite \subseteq { done[i] : i \in 1..Len(done) }
  /\ err # "none" =>
       /\ pc = "raised"
       /\ outputs[cur] = <<>>
       /\ \A i \in 1..Len(done) : done[i] # "imwrite"

\* C5 witness: the downscale failed after the five stages before it, and
\* nothing was written
C5_Witness ==
  /\ pc = "raised" /\ err = "cv2.error"
  /\ done = <<"imread", "bilateral", "edges", "overlay", "blur">>
  /\ outputs[cur] = <<>>

\* n is an integer nearest to the rational a / b (either way on a tie)
IsNearest(n, a, b) ==
  LET diff == IF n * b >= a THEN n * b - a ELSE a - n * b
  IN  2 * diff <= b

\* C8: for a scale in (0, 1] the downscaled buffer is round(W*scale) by
\* round(H*scale), rounding to nearest; with scale = 1.0 the downscaled and
\* the written buffers both are W by H.
C8_DownscaleRoundsToNearest ==
  (ScaleValid /\ \E i \in 1..Len(done) : done[i] = "downscale")
    => /\ IsNearest(small[1], orig[1] * scale[1], scale[2])
       /\ IsNearest(small[2], orig[2] * scale[1], scale[2])
       /\ scale[1] = scale[2] => small = orig
       /\ (scale[1] = scale[2] /\ pc = "returned") => outputs[cur] = orig

(* ========================== claims: SpecCli ============================ *)
\* the call for file f, made with the default arguments, would succeed
WouldSucceed(f) == files[f].readable /\ ~ResizeRejects(TargetOf(f))

\* C4: in a directory run the failure of one image does not abort the run:
\* once main() has ended, every image after the failing one in the sorted
\* order whose own pipeline succeeds has its output written.
C4_FailureDoesNotAbortBatch ==
  (mpc \in {"done", "crashed"} /\ err # "none")
    => \A j \in 1..Len(queue) :
         (j > idx /\ WouldSucceed(queue[j])) => outputs[queue[j]] # <<>>

(* ========================= claims: SpecPixel =========================== *)
\* the pixel has been dithered
Dithered == ppc \in {"tint", "upscale", "done"}

\* the pixel has been mapped to the tint
Tinted == ppc \in {"upscale", "done"}

\* C3: a tint name that is no key of PRESETS does not raise and gives, for
\* any pixel and level count, the output of the same call with tint="green".
C3_UnknownTintIsGreen ==
  (Tinted /\ tint \notin DOMAIN PRESETS)
    => /\ err = "none"
       /\ result = ToSamples(TintF(dithered, PRESETS["green"]), levels)
       /\ ppc = "done" => final = result

\* C3 witness: a pixel tinted under the name "xyz" came out in the green
\* preset's colour at full brightness
C3_Witness ==
  /\ ppc = "done" /\ tint = "xyz" /\ gray = GrayMax
  /\ final = <<210, 240, 200>>

\* C6: for every 8-bit brightness, every threshold of the pattern and every
\* level count N >= 2, the blended dither value lies in [0, 1].
C6_FinalInUnitInterval ==
  (Dithered /\ levels >= 2)
    => (dithered >= 0 /\ dithered <= FinalDen(levels))

\* C6 witness: a pixel of intermediate dither strength whose quantised
\* value differs from its brightness, so the blend mixes two values
C6_Witness ==
  /\ ppc = "tint" /\ levels >= 2
  /\ DitherStrength(gray) > 0 /\ DitherStrength(gray) < StrengthDen
  /\ Quantized(gray, Bayer(py, px), levels) * GrayMax # gray * levels
  /\ dithered > 0 /\ dithered < FinalDen(levels)

\* the cells of one period of the pattern
Period == (0..(BayerSize - 1)) \X (0..(BayerSize - 1))

RECURSIVE SumOver(_, _, _, _)
\* the sum over the cells of S of Quantized(k, ., N) to the power e (1 or 2)
SumOver(S, k, N, e) ==
  IF S = {} THEN 0
  ELSE LET c == CHOOSE c \in S : TRUE
           q == Quantized(k, Bayer(c[1], c[2]), N)
       IN  (IF e = 1 THEN q ELSE q * q) + SumOver(S \ {c}, k, N, e)

\* 64^2 times the variance of floor(d * N) over one period.  The dither
\* output is gray*(1-s) + s*floor(d*N)/N, so its variance over the period is
\* (s/N)^2 times the variance of floor(d * N).
QVar(k, N) ==
  BayerDen * SumOver(Period, k, N, 2)
    - SumOver(Period, k, N, 1) * SumOver(Period, k, N, 1)

\* the variance of the dither output of brightness k is smaller with N2
\* levels than with N1 levels: (s/N2)^2 QVar(k,N2) < (s/N1)^2 QVar(k,N1)
VarianceSmaller(k, N2, N1) ==
  /\ DitherStrength(k) > 0
  /\ QVar(k, N2) * N1 * N1 < QVar(k, N1) * N2 * N2

\* the values the dither output takes over one period, over FinalDen(N)
PeriodValues(k, N) == { Blend(k, Bayer(c[1], c[2]), N) : c \in Period }

\* C7 as stated: for a constant-brightness image and level counts N < N2,
\* both >= 2, the variance of the dither output over the 64 thresholds of
\* one period is smaller for N2 than for N.
C7_VarianceShrinksWithLevels ==
  (ppc = "tint" /\ py = 0 /\ px = 0 /\ levels >= 2)
    => \A N2 \in (levels + 1)..MaxLevels :
         VarianceSmaller(gray, N2, levels)

\* C7 amended: over one period the dither output of a constant-brightness
\* image takes at most two values, which differ by at most s/N; so its
\* variance is at most (s/(2N))^2, a bound that shrinks as N grows.
C7_SpreadBoundedByStep ==
  (ppc = "tint" /\ py = 0 /\ px = 0 /\ levels >= 2)
    => /\ Cardinality(PeriodValues(gray, levels)) <= 2
       /\ dithered \in PeriodValues(gray, levels)
       /\ \A a, b \in PeriodValues(gray, levels) :
            a - b <= DitherStrength(gray) * GrayMax
       /\ 4 * QVar(gray, levels) <= BayerDen * BayerDen

\* C7 witness: a brightness at which the period takes two values, one
\* full step s/N apart
C7_Witness ==
  /\ ppc = "tint" /\ py = 0 /\ px = 0 /\ levels >= 2
  /\ DitherStrength(gray) > 0
  /\ \E a, b \in PeriodValues(gray, levels) :
       a - b = DitherStrength(gray) * GrayMax

\* C9: each output channel is dithered * tint[c], clamped to [0, 255] and
\* rounded to the nearest integer; brightness 0 gives (0,0,0) and
\* brightness 1 gives the tint triple.
C9_PaletteRoundsToNearest ==
  Tinted =>
    /\ \A c \in 1..3 :
         IsNearest(result[c],
                   Clip(dithered * PresetsGet(tint)[c], 0,
                        GrayMax * FinalDen(levels)),
                   FinalDen(levels))
    /\ dithered = 0 => result = <<0, 0, 0>>
    /\ dithered = FinalDen(levels) => result = PresetsGet(tint)

\* C10: after the outline darkening, after the palette mapping and in the
\* final buffer every sample is an integer in [0, 255], and neither
\* conversion to 8 bits wraps: the value converted is already in range.
C10_SamplesStayInRange ==
  /\ ppc = "overlaid" =>
       /\ img \in 0..GrayMax
       /\ img = IntTrunc(img_f, OpacityDen)
  /\ Tinted =>
       \A c \in 1..3 :
         /\ result[c] \in 0..GrayMax
         /\ result[c] = IntTrunc(Clip(result_f[c], 0, GrayMax * FinalDen(levels)),
                                 FinalDen(levels))
  /\ ppc = "done" => \A c \in 1..3 : final[c] \in 0..GrayMax

\* C10 witness: the brightest sample under an outline, 255 * 0.5 = 127.5,
\* stored as 127
C10_Witness ==
  /\ ppc = "overlaid" /\ edge = 1 /\ img_f = GrayMax /\ img = 127

====
